---- MODULE Spec2Model ----
(***************************************************************************)
(* Model of cmd/alerters.go of docker-alertd: the three Alerter backends   *)
(* (Email, Slack, Pushover), their Valid() and Alert() methods.            *)
(*                                                                         *)
(* A Go string is a sequence of one-character strings, so concatenation,   *)
(* escaping and substring search are computed and not assumed.  A Go       *)
(* slice is a record [isNil, elems]: reflect.DeepEqual tells a nil slice   *)
(* from an empty one.  An error is a record; its Error() text is a         *)
(* sequence of tokens (context strings, separators, field messages).       *)
(***************************************************************************)
EXTENDS Integers, Sequences, FiniteSets, TLC

(* ------------------------------ bounds --------------------------------- *)
\* longest recipient list of an Email configuration
MaxTo == 2
\* longest list of subject addendums of an alert
MaxAddendums == 4
\* longest Pushover APIToken / UserKey
MaxKeyLen == 1
\* longest text returned by Alert.Dump()
MaxDumpLen == 2

(* ------------------------------ strings -------------------------------- *)
RECURSIVE StrsUpTo(_, _)
\* all strings over alphabet cs of length at most n
StrsUpTo(cs, n) ==
    IF n = 0 THEN {<<>>}
    ELSE LET shorter == StrsUpTo(cs, n - 1)
         IN  shorter \cup {Append(s, c) : s \in shorter, c \in cs}

\* s[i..] starts with pat
PrefixAt(s, i, pat) ==
    /\ i + Len(pat) - 1 <= Len(s)
    /\ \A k \in 1..Len(pat) : s[i + k - 1] = pat[k]

\* number of (possibly overlapping) occurrences of pat in s
CountOcc(s, pat) == Cardinality({i \in 1..Len(s) : PrefixAt(s, i, pat)})

RECURSIVE RemoveAll(_, _)
\* s with every occurrence of pat removed, left to right
RemoveAll(s, pat) ==
    IF s = <<>> THEN <<>>
    ELSE IF PrefixAt(s, 1, pat) THEN RemoveAll(SubSeq(s, Len(pat) + 1, Len(s)), pat)
    ELSE <<Head(s)>> \o RemoveAll(Tail(s), pat)

(* ------------------------------ errors --------------------------------- *)
\* a nil error
Nil == [kind |-> "nil"]

\* errors.New(text)
ErrorsNew(text) == [kind |-> "new", text |-> text]

\* errors.Wrap(err, msg): err annotated with msg; Error() is msg + ": " + cause
ErrorsWrap(err, msg) == [kind |-> "wrap", msg |-> msg, text |-> <<msg, ": ">> \o err.text]

RECURSIVE StringsJoin(_, _)
\* strings.Join(elems, sep), a token per element and per separator
StringsJoin(elems, sep) ==
    IF Len(elems) = 0 THEN <<>>
    ELSE IF Len(elems) = 1 THEN <<elems[1]>>
    ELSE <<elems[1], sep>> \o StringsJoin(Tail(elems), sep)

\* the field-missing messages, one per required field
ErrEmailNoSMTP == "ErrEmailNoSMTP"
ErrEmailNoTo == "ErrEmailNoTo"
ErrEmailNoFrom == "ErrEmailNoFrom"
ErrEmailNoUser == "ErrEmailNoUser"
ErrEmailNoPass == "ErrEmailNoPass"
ErrEmailNoPort == "ErrEmailNoPort"
ErrEmailNoSubject == "ErrEmailNoSubject"
ErrSlackNoWebHookURL == "ErrSlackNoWebHookURL"
ErrPushoverAPIToken == "ErrPushoverAPIToken"
ErrPushoverUserKey == "ErrPushoverUserKey"
ErrPushoverAPIURL == "ErrPushoverAPIURL"

(* --------------------------- configurations ---------------------------- *)
\* a []string: nil, or a (possibly empty) list
NilSlice == [isNil |-> TRUE, elems |-> <<>>]
MakeSlice(elems) == [isNil |-> FALSE, elems |-> elems]

\* reflect.DeepEqual on two []string: both nil or both non-nil, same elements
DeepEqualSlice(a, b) == a.isNil = b.isNil /\ a.elems = b.elems

\* Email{}
EmailZero ==
    [type |-> "Email", SMTP |-> <<>>, Username |-> <<>>, Password |-> <<>>,
     Port |-> <<>>, From |-> <<>>, To |-> NilSlice, Subject |-> <<>>]

\* Slack{}
SlackZero == [type |-> "Slack", WebhookURL |-> <<>>]

\* Pushover{}
PushoverZero == [type |-> "Pushover", APIToken |-> <<>>, UserKey |-> <<>>, APIURL |-> <<>>]

\* reflect.DeepEqual(Email{}, e)
DeepEqualEmail(z, e) ==
    /\ z.SMTP = e.SMTP /\ z.Username = e.Username /\ z.Password = e.Password
    /\ z.Port = e.Port /\ z.From = e.From /\ z.Subject = e.Subject
    /\ DeepEqualSlice(z.To, e.To)

\* reflect.DeepEqual(Slack{}, s)
DeepEqualSlack(z, s) == z.WebhookURL = s.WebhookURL

\* reflect.DeepEqual(Pushover{}, p)
DeepEqualPushover(z, p) ==
    z.APIToken = p.APIToken /\ z.UserKey = p.UserKey /\ z.APIURL = p.APIURL

\* the values a plain configuration field takes: unset or set
FieldValues == {<<>>, <<"x">>}
\* ports: unset, or a decimal number
PortValues == {<<>>, <<"2", "5">>}
\* subject prefixes
SubjectValues == {<<>>, <<"A">>}
\* recipient lists: nil, or a list of up to MaxTo addresses
ToValues == {NilSlice} \cup {MakeSlice(l) : l \in StrsUpTo({<<"r">>}, MaxTo)}
\* characters of a Pushover token or user key, reserved ones included
KeyChars == {"T", "&", " "}
\* characters of an alert dump
DumpChars == {"h", "&", " "}

EmailConfigs ==
    [type : {"Email"}, SMTP : FieldValues, Username : FieldValues,
     Password : FieldValues, Port : PortValues, From : FieldValues,
     To : ToValues, Subject : SubjectValues]

SlackConfigs == [type : {"Slack"}, WebhookURL : FieldValues]

PushoverConfigs ==
    [type : {"Pushover"}, APIToken : StrsUpTo(KeyChars, MaxKeyLen),
     UserKey : StrsUpTo(KeyChars, MaxKeyLen), APIURL : FieldValues]

(* ------------------------------- Valid --------------------------------- *)
\* the messages of the fields selected by checks, in the order of the checks
RECURSIVE Collect(_)
Collect(checks) ==
    IF checks = <<>> THEN <<>>
    ELSE (IF checks[1][1] THEN <<checks[1][2]>> ELSE <<>>) \o Collect(Tail(checks))

\* the tail of every Valid(): nil without messages, else the wrapped list
ValidResult(errString, msg) ==
    IF Len(errString) = 0 THEN Nil
    ELSE ErrorsWrap(ErrorsNew(StringsJoin(errString, ", ")), msg)

\* EmailErrString that stops at the first missing field
EmailErrStringFailFast(e) ==
    SubSeq(Collect(<< <<e.SMTP = <<>>, ErrEmailNoSMTP>>,
                      <<Len(e.To.elems) < 1, ErrEmailNoTo>>,
                      <<e.From = <<>>, ErrEmailNoFrom>>,
                      <<e.Username = <<>>, ErrEmailNoUser>>,
                      <<e.Password = <<>>, ErrEmailNoPass>>,
                      <<e.Port = <<>>, ErrEmailNoPort>>,
                      <<e.Subject = <<>>, ErrEmailNoSubject>> >>), 1, 1)

\* errString of Email.Valid after the seven field checks
EmailErrString(e) ==
    Collect(<< <<e.SMTP = <<>>, ErrEmailNoSMTP>>,
               <<Len(e.To.elems) < 1, ErrEmailNoTo>>,
               <<e.From = <<>>, ErrEmailNoFrom>>,
               <<e.Username = <<>>, ErrEmailNoUser>>,
               <<e.Password = <<>>, ErrEmailNoPass>>,
               <<e.Port = <<>>, ErrEmailNoPort>>,
               <<e.Subject = <<>>, ErrEmailNoSubject>> >>)

\* Email.Valid without the early return for an omitted channel
EmailValidNoOmitted(e) ==
    ValidResult(EmailErrString(e), "email settings validation fail")

\* Email.Valid
EmailValid(e) ==
    IF DeepEqualEmail(EmailZero, e) THEN Nil
    ELSE ValidResult(EmailErrString(e), "email settings validation fail")

\* Slack.Valid without the early return for an omitted channel
SlackValidNoOmitted(s) ==
    ValidResult(Collect(<< <<s.WebhookURL = <<>>, ErrSlackNoWebHookURL>> >>),
                "slack settings validation fail")

\* Slack.Valid
SlackValid(s) ==
    IF DeepEqualSlack(SlackZero, s) THEN Nil
    ELSE ValidResult(Collect(<< <<s.WebhookURL = <<>>, ErrSlackNoWebHookURL>> >>),
                     "slack settings validation fail")

\* errString of Pushover.Valid after the three field checks
PushoverErrString(p) ==
    Collect(<< <<p.APIToken = <<>>, ErrPushoverAPIToken>>,
               <<p.UserKey = <<>>, ErrPushoverUserKey>>,
               <<p.APIURL = <<>>, ErrPushoverAPIURL>> >>)

\* Pushover.Valid
PushoverValid(p) ==
    IF DeepEqualPushover(PushoverZero, p) THEN Nil
    ELSE ValidResult(PushoverErrString(p), "pushover settings validation fail")

(* ------------------------------- alerts -------------------------------- *)
\* the values of one subject addendum
AddendumValues == {<<"a">>, <<"b">>, <<".">>}

\* alerts whose subject addendums vary, given to the Email backend
SubjectAlerts ==
    [SubjectAddendums : StrsUpTo(AddendumValues, MaxAddendums),
     Dump : {<<"h">>}, DumpEmail : {<<"h">>}]

\* alerts whose dump varies, given to the Slack and Pushover backends
DumpAlerts ==
    [SubjectAddendums : {<< <<"a">> >>},
     Dump : StrsUpTo(DumpChars, MaxDumpLen), DumpEmail : {<<"h">>}]

\* the alert of a call that has not been made
NoAlert == [SubjectAddendums |-> <<>>, Dump |-> <<>>, DumpEmail |-> <<>>]

\* the marker Email.Alert adds to a long subject
Ellipsis == <<".", ".", ".">>

RECURSIVE SubjectLoopAfterThird(_, _, _)
\* SubjectLoop with the marker added at index 3 instead of index 2
SubjectLoopAfterThird(subject, addendums, i) ==
    IF i >= Len(addendums) THEN subject
    ELSE LET withAddendum == subject \o addendums[i + 1] \o <<" ">>
             afterIf == IF i = 3 THEN withAddendum \o Ellipsis ELSE withAddendum
         IN  SubjectLoopAfterThird(afterIf, addendums, i + 1)

RECURSIVE SubjectLoop(_, _, _)
\* the range loop of Email.Alert from index i (0-based) on
SubjectLoop(subject, addendums, i) ==
    IF i >= Len(addendums) THEN subject
    ELSE LET withAddendum == subject \o addendums[i + 1] \o <<" ">>
             afterIf == IF i = 2 THEN withAddendum \o Ellipsis ELSE withAddendum
         IN  SubjectLoop(afterIf, addendums, i + 1)

\* the Subject header Email.Alert builds
EmailSubject(e, a) == SubjectLoop(e.Subject \o <<":", " ">>, a.SubjectAddendums, 0)

RECURSIVE JoinStr(_, _)
\* strings.Join on strings of characters
JoinStr(elems, sep) ==
    IF Len(elems) = 0 THEN <<>>
    ELSE IF Len(elems) = 1 THEN elems[1]
    ELSE elems[1] \o sep \o JoinStr(Tail(elems), sep)

DigitValue == [c \in {"0", "1", "2", "3", "4", "5", "6", "7", "8", "9"} |->
    CASE c = "0" -> 0 [] c = "1" -> 1 [] c = "2" -> 2 [] c = "3" -> 3 [] c = "4" -> 4
      [] c = "5" -> 5 [] c = "6" -> 6 [] c = "7" -> 7 [] c = "8" -> 8 [] c = "9" -> 9]

RECURSIVE AtoiFrom(_, _)
AtoiFrom(s, acc) ==
    IF s = <<>> THEN acc ELSE AtoiFrom(Tail(s), 10 * acc + DigitValue[Head(s)])

\* port, _ := strconv.Atoi(s): 0 when s is not a decimal number
Atoi(s) ==
    IF s # <<>> /\ \A k \in 1..Len(s) : s[k] \in DOMAIN DigitValue
    THEN AtoiFrom(s, 0) ELSE 0

\* the message and dialer Email.Alert hands to DialAndSend
EmailRequest(e, a) ==
    [kind |-> "smtp", host |-> e.SMTP, port |-> Atoi(e.Port),
     username |-> e.Username, password |-> e.Password,
     From |-> e.From, To |-> JoinStr(e.To.elems, <<",">>),
     Subject |-> EmailSubject(e, a), body |-> a.DumpEmail]

\* the request Slack.Alert posts
SlackRequest(s, a) ==
    [kind |-> "http", url |-> s.WebhookURL, contentType |-> "application/json",
     body |-> <<"{", "\"", "t", "e", "x", "t", "\"", ":", " ", "\"">>
              \o a.Dump \o <<"\"", "}">>]

\* characters url.QueryEscape leaves alone
Unreserved == {"T", "h", "x", "a", "b", "r", "A", "-", "_", ".", "~"}

\* url.QueryEscape on one character: space is '+', the rest %XX
EscapeChar(c) ==
    IF c \in Unreserved THEN <<c>>
    ELSE CASE c = " " -> <<"+">>
           [] c = "&" -> <<"%", "2", "6">>
           [] c = "=" -> <<"%", "3", "D">>
           [] c = "+" -> <<"%", "2", "B">>
           [] c = "%" -> <<"%", "2", "5">>

RECURSIVE QueryEscape(_)
\* url.QueryEscape
QueryEscape(s) ==
    IF s = <<>> THEN <<>> ELSE EscapeChar(Head(s)) \o QueryEscape(Tail(s))

\* parsedBody of Pushover.Alert
PushoverBody(p, a) ==
    <<"t", "o", "k", "e", "n", "=">> \o p.APIToken
    \o <<"&", "u", "s", "e", "r", "=">> \o p.UserKey
    \o <<"&", "m", "e", "s", "s", "a", "g", "e", "=">> \o QueryEscape(a.Dump)

\* the request Pushover.Alert posts
PushoverRequest(p, a) ==
    [kind |-> "http", url |-> p.APIURL,
     contentType |-> "application/x-www-form-urlencoded", body |-> PushoverBody(p, a)]

(* ------------------------------ transport ------------------------------ *)
\* no request built yet
NoRequest == [kind |-> "none"]

\* the error a failed DialAndSend or http.Post returns
TransportErr == [kind |-> "transport", text |-> <<"transport error">>]

\* no transport call made yet
NoResp == [done |-> FALSE, err |-> Nil, status |-> 0]

\* outcomes of gomail's DialAndSend: sent, or an error
SMTPOutcomes == {[done |-> TRUE, err |-> e, status |-> 0] : e \in {Nil, TransportErr}}

\* status codes of a completed HTTP exchange
StatusCodes == {200, 404, 500}

\* outcomes of http.Post: a response of any status, or an error
HTTPOutcomes ==
    {[done |-> TRUE, err |-> Nil, status |-> c] : c \in StatusCodes}
    \cup {[done |-> TRUE, err |-> TransportErr, status |-> 0]}

\* what Email.Alert returns after DialAndSend returned err
EmailAlertErr(err) ==
    IF err.kind # "nil" THEN ErrorsWrap(err, "error sending email") ELSE Nil

\* SlackAlertErr that also rejects a response that is not 2xx
SlackAlertErrStatus(r) ==
    IF r.err.kind # "nil" THEN r.err
    ELSE IF r.status >= 300 THEN ErrorsNew(<<"unexpected status">>) ELSE Nil

\* what Slack.Alert returns after http.Post returned (resp, err)
SlackAlertErr(r) == IF r.err.kind # "nil" THEN r.err ELSE Nil

\* what Pushover.Alert returns after http.Post returned (resp, err)
PushoverAlertErr(r) == IF r.err.kind # "nil" THEN r.err ELSE Nil

\* SuccessLine with the Slack line copied to Pushover
SuccessLineCopied(type) ==
    CASE type = "Email" -> "alert email sent"
      [] type = "Slack" -> "sent alert to slack"
      [] type = "Pushover" -> "sent alert to slack"

\* the line each backend logs after a successful delivery
SuccessLine(type) ==
    CASE type = "Email" -> "alert email sent"
      [] type = "Slack" -> "sent alert to slack"
      [] type = "Pushover" -> "sent alert to pushover"

(* ------------------------------- state --------------------------------- *)
VARIABLES
    alerter,   \* the receiver: an Email, Slack or Pushover value
    alert,     \* the *Alert argument of the Alert() call
    op,        \* the method called: "none", "Valid" or "Alert"
    pc,        \* position in the call: "idle", "send", "sent", "logged", "done"
    request,   \* what Alert() built and handed to the transport
    attempts,  \* transport calls made
    resp,      \* what the transport call returned
    logs,      \* lines written with log.Println
    ret        \* the error the method returned

vars == <<alerter, alert, op, pc, request, attempts, resp, logs, ret>>

Configs == EmailConfigs \cup SlackConfigs \cup PushoverConfigs

Init ==
    /\ alerter \in Configs
    /\ alert = NoAlert
    /\ op = "none"
    /\ pc = "idle"
    /\ request = NoRequest
    /\ attempts = 0
    /\ resp = NoResp
    /\ logs = <<>>
    /\ ret = Nil

\* a call of Valid() on the receiver, start to return
CallValid(result) ==
    /\ pc = "idle"
    /\ op' = "Valid"
    /\ ret' = result
    /\ pc' = "done"
    /\ UNCHANGED <<alerter, alert, request, attempts, resp, logs>>

CallEmailValid == alerter.type = "Email" /\ CallValid(EmailValid(alerter))

CallSlackValid == alerter.type = "Slack" /\ CallValid(SlackValid(alerter))

CallPushoverValid == alerter.type = "Pushover" /\ CallValid(PushoverValid(alerter))

\* Alert() up to the transport call: the request is built
BeginAlert(a, req) ==
    /\ pc = "idle"
    /\ op' = "Alert"
    /\ alert' = a
    /\ request' = req
    /\ pc' = "send"
    /\ UNCHANGED <<alerter, attempts, resp, logs, ret>>

EmailAlertBegin ==
    /\ alerter.type = "Email"
    /\ \E a \in SubjectAlerts : BeginAlert(a, EmailRequest(alerter, a))

SlackAlertBegin ==
    /\ alerter.type = "Slack"
    /\ \E a \in DumpAlerts : BeginAlert(a, SlackRequest(alerter, a))

PushoverAlertBegin ==
    /\ alerter.type = "Pushover"
    /\ \E a \in DumpAlerts : BeginAlert(a, PushoverRequest(alerter, a))

\* the transport call returns r
Transport(r) ==
    /\ pc = "send"
    /\ attempts' = attempts + 1
    /\ resp' = r
    /\ pc' = "sent"
    /\ UNCHANGED <<alerter, alert, op, request, logs, ret>>

\* d.DialAndSend(m)
DialAndSend == alerter.type = "Email" /\ \E r \in SMTPOutcomes : Transport(r)

\* http.Post(url, contentType, body)
HTTPPost == alerter.type \in {"Slack", "Pushover"} /\ \E r \in HTTPOutcomes : Transport(r)

\* the error check after the transport call
AlertErr ==
    CASE alerter.type = "Email" -> EmailAlertErr(resp.err)
      [] alerter.type = "Slack" -> SlackAlertErr(resp)
      [] alerter.type = "Pushover" -> PushoverAlertErr(resp)

\* if err != nil { return ... }
AlertReturnErr ==
    /\ pc = "sent"
    /\ AlertErr.kind # "nil"
    /\ ret' = AlertErr
    /\ pc' = "done"
    /\ UNCHANGED <<alerter, alert, op, request, attempts, resp, logs>>

\* log.Println(<success line>)
AlertLog ==
    /\ pc = "sent"
    /\ AlertErr.kind = "nil"
    /\ logs' = Append(logs, SuccessLine(alerter.type))
    /\ pc' = "logged"
    /\ UNCHANGED <<alerter, alert, op, request, attempts, resp, ret>>

\* return nil
AlertReturnNil ==
    /\ pc = "logged"
    /\ ret' = Nil
    /\ pc' = "done"
    /\ UNCHANGED <<alerter, alert, op, request, attempts, resp, logs>>

Next ==
    \/ CallEmailValid
    \/ CallSlackValid
    \/ CallPushoverValid
    \/ EmailAlertBegin
    \/ SlackAlertBegin
    \/ PushoverAlertBegin
    \/ DialAndSend
    \/ HTTPPost
    \/ AlertReturnErr
    \/ AlertLog
    \/ AlertReturnNil

Spec == Init /\ [][Next]_vars

\* a started call runs on: the goroutine is scheduled and the transport returns
FairSpec == Spec /\ WF_vars(Next)

(* ---------------------------- properties -------------------------------- *)
\* a Valid() call has returned
ValidDone == pc = "done" /\ op = "Valid"

\* an Alert() call has returned
AlertDone == pc = "done" /\ op = "Alert"

\* the configuration is the zero value of its type: no field was ever set
ZeroConfig(c) == c \in {EmailZero, SlackZero, PushoverZero}

\* every string field is empty and the recipient list has no elements
IsOmitted(c) ==
    CASE c.type = "Email" ->
           /\ c.SMTP = <<>> /\ c.Username = <<>> /\ c.Password = <<>> /\ c.Port = <<>>
           /\ c.From = <<>> /\ c.Subject = <<>> /\ Len(c.To.elems) = 0
      [] c.type = "Slack" -> c.WebhookURL = <<>>
      [] c.type = "Pushover" -> c.APIToken = <<>> /\ c.UserKey = <<>> /\ c.APIURL = <<>>

\* the omitted-channel test the source makes
OmittedBySource(c) ==
    CASE c.type = "Email" -> DeepEqualEmail(EmailZero, c)
      [] c.type = "Slack" -> DeepEqualSlack(SlackZero, c)
      [] c.type = "Pushover" -> DeepEqualPushover(PushoverZero, c)

FieldMessages ==
    {ErrEmailNoSMTP, ErrEmailNoTo, ErrEmailNoFrom, ErrEmailNoUser, ErrEmailNoPass,
     ErrEmailNoPort, ErrEmailNoSubject, ErrSlackNoWebHookURL, ErrPushoverAPIToken,
     ErrPushoverUserKey, ErrPushoverAPIURL}

\* the field-missing messages the text of err contains
Listed(err) ==
    IF err.kind = "nil" THEN {}
    ELSE {err.text[i] : i \in 1..Len(err.text)} \cap FieldMessages

\* the messages of the required fields of c that are empty
Missing(c) ==
    CASE c.type = "Email" ->
           {m \in FieldMessages :
              \/ m = ErrEmailNoSMTP /\ c.SMTP = <<>>
              \/ m = ErrEmailNoTo /\ Len(c.To.elems) = 0
              \/ m = ErrEmailNoFrom /\ c.From = <<>>
              \/ m = ErrEmailNoUser /\ c.Username = <<>>
              \/ m = ErrEmailNoPass /\ c.Password = <<>>
              \/ m = ErrEmailNoPort /\ c.Port = <<>>
              \/ m = ErrEmailNoSubject /\ c.Subject = <<>>}
      [] c.type = "Pushover" ->
           {m \in FieldMessages :
              \/ m = ErrPushoverAPIToken /\ c.APIToken = <<>>
              \/ m = ErrPushoverUserKey /\ c.UserKey = <<>>
              \/ m = ErrPushoverAPIURL /\ c.APIURL = <<>>}
      [] c.type = "Slack" ->
           {m \in FieldMessages : m = ErrSlackNoWebHookURL /\ c.WebhookURL = <<>>}

C2_AllMissingListed ==
    (ValidDone /\ alerter.type \in {"Email", "Pushover"} /\ ~IsOmitted(alerter)) =>
        /\ (ret.kind # "nil") <=> (Missing(alerter) # {})
        /\ Listed(ret) = Missing(alerter)

C2_Witness ==
    /\ ValidDone
    /\ alerter.type = "Email"
    /\ Missing(alerter) = {ErrEmailNoFrom, ErrEmailNoPass}
    /\ Listed(ret) = {ErrEmailNoFrom, ErrEmailNoPass}

RECURSIVE Spaced(_)
\* each addendum followed by one space
Spaced(addendums) ==
    IF addendums = <<>> THEN <<>>
    ELSE Head(addendums) \o <<" ">> \o Spaced(Tail(addendums))

\* the smaller of two numbers
Min(a, b) == IF a < b THEN a ELSE b

\* the Email.Alert call has built its subject
SubjectBuilt == op = "Alert" /\ alerter.type = "Email"

\* C3: apart from the ellipsis marker, the subject built by Email.Alert is the
\* prefix, ": " and the first min(3, n) addendums in order; no later addendum
\* appears.
C3_AtMostThreeAddendums ==
    SubjectBuilt =>
        RemoveAll(request.Subject, Ellipsis) =
            alerter.Subject \o <<":", " ">>
            \o Spaced(SubSeq(alert.SubjectAddendums, 1,
                             Min(3, Len(alert.SubjectAddendums))))

\* C4 as stated: the subject contains the ellipsis if and only if the alert has
\* more than 3 addendums, and then exactly once.
C4_EllipsisIffMoreThanThree ==
    SubjectBuilt =>
        /\ (CountOcc(request.Subject, Ellipsis) >= 1) <=> (Len(alert.SubjectAddendums) > 3)
        /\ CountOcc(request.Subject, Ellipsis) <= 1

\* neither the subject prefix nor an addendum contains a '.'
NoDots ==
    /\ CountOcc(alerter.Subject, <<".">>) = 0
    /\ \A i \in 1..Len(alert.SubjectAddendums) :
          CountOcc(alert.SubjectAddendums[i], <<".">>) = 0

\* C4 amended: when neither the prefix nor an addendum contains a '.', the
\* subject contains the ellipsis exactly once if the alert has at least 3
\* addendums and not at all if it has 0, 1 or 2.
C4_EllipsisIffAtLeastThree ==
    (SubjectBuilt /\ NoDots) =>
        CountOcc(request.Subject, Ellipsis) =
            (IF Len(alert.SubjectAddendums) >= 3 THEN 1 ELSE 0)

C4_Witness ==
    /\ SubjectBuilt /\ NoDots
    /\ Len(alert.SubjectAddendums) = 3
    /\ CountOcc(request.Subject, Ellipsis) = 1

\* C5: the body Pushover.Alert posts is token=, user= and message= each
\* followed by the form-encoded value, so it has exactly two '&' and three '='.
C5_FormBodyEncoded ==
    (op = "Alert" /\ alerter.type = "Pushover") =>
        /\ request.body =
              <<"t", "o", "k", "e", "n", "=">> \o QueryEscape(alerter.APIToken)
              \o <<"&", "u", "s", "e", "r", "=">> \o QueryEscape(alerter.UserKey)
              \o <<"&", "m", "e", "s", "s", "a", "g", "e", "=">> \o QueryEscape(alert.Dump)
        /\ CountOcc(request.body, <<"&">>) = 2
        /\ CountOcc(request.body, <<"=">>) = 3

\* C6: when the transport call of Alert() failed, every backend returns the
\* transport error wrapped with a context string, never the bare error.
C6_TransportErrorWrapped ==
    (AlertDone /\ resp.err # Nil) => (ret.kind = "wrap" /\ ret # resp.err)

\* C7: Slack.Alert and Pushover.Alert return nil and log one line whenever the
\* POST completed, whatever the status code, and return an error only when the
\* transport call returned one.
C7_StatusNotInspected ==
    (AlertDone /\ alerter.type \in {"Slack", "Pushover"}) =>
        /\ (resp.err = Nil) => (ret = Nil /\ Len(logs) = 1)
        /\ (ret # Nil) <=> (resp.err # Nil)

C7_Witness ==
    /\ AlertDone /\ alerter.type = "Slack"
    /\ resp.err = Nil /\ resp.status = 500
    /\ ret = Nil /\ Len(logs) = 1

\* the success line the documentation gives for each backend
DocumentedLine ==
    CASE alerter.type = "Email" -> "alert email sent"
      [] alerter.type = "Slack" -> "sent alert to slack"
      [] alerter.type = "Pushover" -> "sent alert to pushover"

\* C8: one Alert() call makes exactly one transport attempt, terminates, and
\* logs the backend's success line if and only if the attempt succeeded, after
\* the attempt and before returning nil; a failed attempt logs nothing.
C8_OneAttemptThenLog ==
    /\ [](attempts <= 1)
    /\ []((op = "Alert" /\ pc \in {"sent", "logged", "done"}) => attempts = 1)
    /\ [](logs # <<>> => (attempts = 1 /\ resp.err = Nil /\ logs = <<DocumentedLine>>))
    /\ [](AlertDone => ((ret = Nil) <=> (resp.err = Nil)) /\ ((logs # <<>>) <=> (resp.err = Nil)))
    /\ [][logs' # logs => (pc = "sent" /\ pc' # "done" /\ ret' = ret)]_vars
    /\ ((op = "Alert") ~> AlertDone)

C8_Witness ==
    /\ AlertDone /\ alerter.type = "Email"
    /\ attempts = 1 /\ resp.err = Nil
    /\ logs = <<"alert email sent">> /\ ret = Nil

\* C9: Slack.Valid() returns nil for every Slack configuration.
C9_SlackAlwaysValid == (ValidDone /\ alerter.type = "Slack") => ret = Nil

C9_Witness ==
    ValidDone /\ alerter.type = "Slack" /\ alerter.WebhookURL = <<>> /\ ret = Nil

\* C10: the source's omitted-channel test agrees with the per-field predicate
\* on every configuration, and Valid() returns nil whenever the predicate holds.
C10_OmittedTestIsPerField ==
    ValidDone =>
        /\ OmittedBySource(alerter) <=> IsOmitted(alerter)
        /\ IsOmitted(alerter) => ret = Nil

====
